---- MODULE Spec2Model ----
(***************************************************************************)
(* The offline resource cache manager of the ChanFM site (src/sw.js): the  *)
(* install, activate, fetch, message and periodicsync handlers of the      *)
(* service worker, their asynchronous continuations, and the Cache Store   *)
(* they share.                                                             *)
(*                                                                         *)
(* Every await of the source is a suspension point, so every continuation  *)
(* between two awaits is one action.  The network and the Cache Store are  *)
(* the host's: a fetch resolves with an ok response, a non-ok response or  *)
(* a failure, and a cache open or put completes or fails.                  *)
(***************************************************************************)
EXTENDS Integers, Sequences, FiniteSets, Bags, TLC

(***************************************************************************)
(* Bounds of the model.                                                    *)
(***************************************************************************)
MaxEvents == 2      \* fetch events the worker has been handed
MaxStale == 2       \* cache generations left behind by earlier versions

(***************************************************************************)
(* Strings: the parts of String.prototype and URL the worker uses.         *)
(***************************************************************************)
endsWith(s, e) ==
    /\ Len(s) >= Len(e)
    /\ SubSeq(s, Len(s) - Len(e) + 1, Len(s)) = e

includes(s, e) ==
    \E i \in 1..(Len(s) - Len(e) + 1) : SubSeq(s, i, i + Len(e) - 1) = e

\* The least index >= from at which one of the characters cs occurs in s,
\* Len(s) + 1 when there is none.
IndexOfAny(s, cs, from) ==
    LET I == {i \in from..Len(s) : SubSeq(s, i, i) \in cs}
    IN  IF I = {} THEN Len(s) + 1 ELSE CHOOSE i \in I : \A j \in I : i <= j

\* new URL(u): the path starts at the first "/" after "scheme://".
UrlPathStart(u) == IndexOfAny(u, {"/"}, IndexOfAny(u, {":"}, 1) + 3)

UrlOrigin(u) == SubSeq(u, 1, UrlPathStart(u) - 1)

UrlPathname(u) ==
    LET p == UrlPathStart(u)
        q == IndexOfAny(u, {"?", "#"}, p)
    IN  IF p > Len(u) THEN "/" ELSE SubSeq(u, p, q - 1)

(***************************************************************************)
(* Configuration of the worker.                                            *)
(***************************************************************************)
CACHE_NAME == "chanfm-v1.0.0"

\* location.origin of the worker: the origin the site is served from.
SelfOrigin == "https://chanfm.github.io"

\* A relative URL resolves against the worker's own origin.
Resolve(path) == SelfOrigin \o path

STATIC_RESOURCES ==
    << "/", "/index.html", "/getting-started.html",
       "/styles.css", "/script.js", "/404.html" >>

StaticUrls == {Resolve(STATIC_RESOURCES[i]) : i \in DOMAIN STATIC_RESOURCES}

allowedOrigins ==
    { "https://fonts.googleapis.com",
      "https://fonts.gstatic.com",
      "https://cdnjs.cloudflare.com" }
\* Mutant: every origin is taken for an allowed one.
isAllowedOrigin_Any(origin) == origin \in allowedOrigins \/ origin # ""

isAllowedOrigin(origin) == origin \in allowedOrigins

staticExtensions ==
    { ".css", ".js", ".png", ".jpg", ".jpeg", ".gif", ".svg", ".webp",
      ".ico", ".woff", ".woff2" }

isStaticAsset(pathname) == \E ext \in staticExtensions : endsWith(pathname, ext)

(***************************************************************************)
(* Responses.  A body names the URL it was served for and the content of   *)
(* the site when it was served.                                            *)
(***************************************************************************)
Contents == {"v1", "v2"}

\* What the generations of earlier versions captured.
StaleContent == "v0"

Body(url, content) == url \o "@" \o content

Response(status, body) == [status |-> status, body |-> body]

\* Response.ok
ok(response) == response.status >= 200 /\ response.status <= 299

NoResponse == Response(0, "")

(***************************************************************************)
(* The Cache Store (CacheStorage): the generations in creation order, each *)
(* a map from request URL to the response captured for it.                 *)
(***************************************************************************)
NoEntries == [u \in {} |-> NoResponse]

CacheNames(cs) == {cs[i].name : i \in DOMAIN cs}

CacheIndex(cs, name) == CHOOSE i \in DOMAIN cs : cs[i].name = name

Entries(cs, name) ==
    IF name \in CacheNames(cs) THEN cs[CacheIndex(cs, name)].entries ELSE NoEntries

\* caches.open(name): creates the generation when it does not exist.
CachesOpen(cs, name) ==
    IF name \in CacheNames(cs) THEN cs
    ELSE Append(cs, [name |-> name, entries |-> NoEntries])

\* caches.delete(name)
CachesDelete(cs, name) == SelectSeq(cs, LAMBDA c : c.name # name)

\* cache.put(request, response) on the generation called name: overwrites the
\* entry of the URL.  A put through a handle whose generation has been deleted
\* since reaches no generation of the store.
CachePut(cs, name, url, response) ==
    [i \in DOMAIN cs |->
        IF cs[i].name = name
        THEN [cs[i] EXCEPT !.entries = (url :> response) @@ cs[i].entries]
        ELSE cs[i]]

\* caches.match(request): the first generation, in creation order, that holds
\* an entry for the URL answers.
CachesMatch(cs, url) ==
    LET I == {i \in DOMAIN cs : url \in DOMAIN cs[i].entries}
    IN  IF I = {} THEN NoResponse
        ELSE cs[CHOOSE i \in I : \A j \in I : i <= j].entries[url]

(***************************************************************************)
(* Requests.  A request is its method, its URL and its headers (a set of   *)
(* name/value pairs; a request may carry no Accept header at all).         *)
(***************************************************************************)
Methods == {"GET", "POST"}

AcceptValues == {"text/html,application/xhtml+xml", "text/css,*/*;q=0.1"}

HeaderSets == {{}} \cup {{<<"Accept", a>>} : a \in AcceptValues}

\* The requests the listener is tried on.
AllUrls ==
    { Resolve("/"),
      Resolve("/index.html"),
      Resolve("/styles.css"),
      Resolve("/styles.css?v=2"),
      Resolve("/logo.svg#mark"),
      Resolve("/css.map"),
      "https://fonts.googleapis.com/css2?family=Inter",
      "https://cdnjs.cloudflare.com/ajax/libs/font-awesome/6.0.0/css/all.min.css",
      "https://evil.example/lib.js",
      "https://evil.example/index.html" }

AllRequests == [method : Methods, url : AllUrls, headers : HeaderSets]

\* The requests of the fetch events whose handlers run against the store.
Urls ==
    { Resolve("/styles.css"),
      "https://fonts.googleapis.com/css2?family=Inter",
      "https://evil.example/lib.js" }

Requests ==
    [method : Methods, url : Urls,
     headers : {{<<"Accept", a>>} : a \in AcceptValues}]

\* request.headers.get('Accept')?.includes('text/html'): a missing header
\* yields undefined, which is falsy.
AcceptsHtml(request) ==
    \E h \in request.headers : h[1] = "Accept" /\ includes(h[2], "text/html")

(***************************************************************************)
(* State.                                                                  *)
(***************************************************************************)
VARIABLES
    worker,      \* state of the worker in the host's lifecycle
    install,     \* the install handler's promise chain
    activate,    \* the activate handler's promise chain
    caches,      \* the Cache Store
    site,        \* the content the network serves at the moment
    handlers,    \* the fetch events handed to the worker: a bag of records
    messages,    \* the message events handed to the worker, in arrival order
    cleanup      \* the cleanup pass started by a periodicsync event

vars == <<worker, install, activate, caches, site, handlers, messages, cleanup>>

\* No periodicsync event has been handled.
NoCleanup ==
    [pc |-> "idle", tag |-> "", now |-> 0, requests |-> {}, request |-> "",
     skipped |-> {}, before |-> << >>]

StaleName(i) == "chanfm-v0." \o ToString(i) \o ".0"

\* A generation left by an earlier version: its own pre-cache.
StaleCache(i) ==
    [name |-> StaleName(i),
     entries |-> [u \in StaticUrls |-> Response(200, Body(u, StaleContent))]]

StaleCaches(n) == [i \in 1..n |-> StaleCache(i)]

Init ==
    /\ worker = "parsed"
    /\ install = [pc |-> "idle", outcome |-> "pending", error |-> FALSE,
                  opened |-> FALSE, precached |-> FALSE, skipWaiting |-> FALSE]
    /\ activate = [pc |-> "idle", pending |-> {}]
    /\ \E n \in 0..MaxStale : caches = StaleCaches(n)
    /\ site = "v1"
    /\ handlers = EmptyBag
    /\ messages = << >>
    /\ cleanup = NoCleanup

\* The site is redeployed with other content.
Deploy(content) ==
    /\ content # site
    /\ site' = content
    /\ UNCHANGED <<messages, cleanup, worker, install, activate, caches, handlers>>

(***************************************************************************)
(* install (sw.js 25-42).  The promise given to waitUntil is the chain     *)
(* open -> addAll -> skipWaiting with a trailing catch.  The host marks    *)
(* the worker installed when that promise fulfils and redundant when it    *)
(* rejects.                                                                *)
(***************************************************************************)
WorkerAfterInstall(outcome) ==
    IF outcome = "fulfilled" THEN "installed" ELSE "redundant"

\* Mutant: the catch asks to skip waiting as the success path does.
InstallCatch_SkipsWaiting(inst) ==
    [inst EXCEPT !.pc = "done", !.error = TRUE, !.outcome = "fulfilled",
                 !.skipWaiting = TRUE]

\* .catch(error => { console.error(...) }): the handler returns undefined, so
\* the chain fulfils.
InstallCatch(inst) ==
    [inst EXCEPT !.pc = "done", !.error = TRUE, !.outcome = "fulfilled"]

\* .then(() => { ...; return self.skipWaiting(); })
InstallThen(inst) ==
    [inst EXCEPT !.pc = "done", !.precached = TRUE, !.skipWaiting = TRUE,
                 !.outcome = "fulfilled"]

InstallEvent ==
    /\ worker = "parsed"
    /\ worker' = "installing"
    /\ install' = [install EXCEPT !.pc = "open"]
    /\ UNCHANGED <<messages, cleanup, activate, caches, site, handlers>>

InstallOpen ==
    /\ worker = "installing" /\ install.pc = "open"
    /\ caches' = CachesOpen(caches, CACHE_NAME)
    /\ install' = [install EXCEPT !.pc = "addAll", !.opened = TRUE]
    /\ UNCHANGED <<messages, cleanup, worker, activate, site, handlers>>

InstallOpenFails ==
    /\ worker = "installing" /\ install.pc = "open"
    /\ install' = InstallCatch(install)
    /\ worker' = WorkerAfterInstall(install'.outcome)
    /\ UNCHANGED <<messages, cleanup, activate, caches, site, handlers>>

\* cache.addAll(STATIC_RESOURCES): every resource is fetched; the entries are
\* stored together, and only when every fetch gave an ok response.  `failed' is
\* the set of resources whose fetch failed or gave a non-ok response.
InstallAddAll(failed) ==
    /\ worker = "installing" /\ install.pc = "addAll"
    /\ IF failed = {}
       THEN /\ caches' = [i \in DOMAIN caches |->
                            IF caches[i].name = CACHE_NAME
                            THEN [caches[i] EXCEPT !.entries =
                                    [u \in StaticUrls |-> Response(200, Body(u, site))]
                                    @@ caches[i].entries]
                            ELSE caches[i]]
            /\ install' = InstallThen(install)
       ELSE /\ caches' = caches
            /\ install' = InstallCatch(install)
    /\ worker' = WorkerAfterInstall(install'.outcome)
    /\ UNCHANGED <<messages, cleanup, activate, site, handlers>>

(***************************************************************************)
(* activate (sw.js 45-65).  The host activates an installed worker once it *)
(* asked to skip waiting or no page is left to the previous worker; fetch  *)
(* events wait until the activate handler's promise has settled.           *)
(***************************************************************************)
\* cacheNames.map(...): the generations whose deletion is requested.
ActivateToDelete(cacheNames) == {n \in cacheNames : n # CACHE_NAME}

ActivateEvent ==
    /\ worker = "installed"
    /\ worker' = "activating"
    /\ activate' = [activate EXCEPT !.pc = "keys"]
    /\ UNCHANGED <<messages, cleanup, install, caches, site, handlers>>

\* caches.keys() resolves; every deletion is requested at once.
ActivateKeys ==
    /\ worker = "activating" /\ activate.pc = "keys"
    /\ LET del == ActivateToDelete(CacheNames(caches))
       IN  IF del = {}
           THEN /\ activate' = [activate EXCEPT !.pc = "done"]
                /\ worker' = "activated"
           ELSE /\ activate' = [activate EXCEPT !.pc = "deleting", !.pending = del]
                /\ worker' = worker
    /\ UNCHANGED <<messages, cleanup, install, caches, site, handlers>>

\* One caches.delete(name) completes; Promise.all resolves with the last one,
\* then clients.claim().  The deletions requested go on after one rejected.
ActivateDelete(name) ==
    /\ activate.pc \in {"deleting", "rejected"}
    /\ name \in activate.pending
    /\ caches' = CachesDelete(caches, name)
    /\ LET left == activate.pending \ {name}
       IN  IF left = {} /\ activate.pc = "deleting"
           THEN /\ activate' = [activate EXCEPT !.pc = "done", !.pending = left]
                /\ worker' = "activated"
           ELSE /\ activate' = [activate EXCEPT !.pending = left]
                /\ worker' = worker
    /\ UNCHANGED <<messages, cleanup, install, site, handlers>>

\* caches.keys() rejects: the promise given to waitUntil rejects with nothing
\* deleted.  The host activates the worker whatever that promise settles to.
ActivateKeysFails ==
    /\ worker = "activating" /\ activate.pc = "keys"
    /\ activate' = [activate EXCEPT !.pc = "rejected"]
    /\ worker' = "activated"
    /\ UNCHANGED <<messages, cleanup, install, caches, site, handlers>>

\* One caches.delete(name) rejects: Promise.all rejects at once, so does the
\* promise given to waitUntil, and the host activates the worker.
ActivateDeleteFails(name) ==
    /\ activate.pc \in {"deleting", "rejected"}
    /\ name \in activate.pending
    /\ activate' = [activate EXCEPT !.pc = "rejected", !.pending = @ \ {name}]
    /\ worker' = "activated"
    /\ UNCHANGED <<messages, cleanup, install, caches, site, handlers>>

(***************************************************************************)
(* fetch (sw.js 68-185).  A handler record follows one fetch event:        *)
(*   respondWith  how many times event.respondWith was called              *)
(*   strategy     the strategy handleRequest dispatched to                 *)
(*   pc           the await the handler is suspended at                    *)
(*   fetches      network fetches the worker started for the event         *)
(*   held         the network response the handler holds                   *)
(*   result       what the promise given to respondWith resolved with      *)
(*   error        the failure the handler caught last: of the network, of  *)
(*                a store write (open, put) or of a cache lookup           *)
(*   bg, bgHeld   the revalidation a cache-first hit left running         *)
(*   detached     the generation behind the handle updateCache opened was  *)
(*                deleted between the open and the put                     *)
(* Events carry no identity of their own, so the records form a bag.       *)
(***************************************************************************)
NoResult == [kind |-> "none", status |-> 0, body |-> ""]

\* The promise given to respondWith rejected: the page sees a network error.
Rejected == [kind |-> "rejected", status |-> 0, body |-> ""]

Result(kind, response) ==
    [kind |-> kind, status |-> response.status, body |-> response.body]

\* new Response(body, { status })
Synthesized(status, body) == Result("synthesized", Response(status, body))

\* The statuses the server answers with.
NetStatuses == {200, 404}

\* What fetch(request) resolves with when the server answers with `status'.
NetResponse(url, status) ==
    IF status = 200 THEN Response(status, Body(url, site))
    ELSE Response(status, "error page")

Handlers == BagToSet(handlers)

\* The record h of the bag becomes h2.
Becomes(h, h2) == handlers' = (handlers (-) SetToBag({h})) (+) SetToBag({h2})
\* Mutant: the method guard is missing.
Intercepts_AnyMethod(request) ==
    ~ (/\ UrlOrigin(request.url) # SelfOrigin
       /\ ~ isAllowedOrigin(UrlOrigin(request.url)))

\* The listener's guards (sw.js 73-80): TRUE when the event is responded to.
Intercepts(request) ==
    /\ request.method = "GET"
    /\ ~ (/\ UrlOrigin(request.url) # SelfOrigin
          /\ ~ isAllowedOrigin(UrlOrigin(request.url)))
\* Mutant: the static-asset test comes before the HTML test.
Strategy_StaticFirst(request) ==
    IF isStaticAsset(UrlPathname(request.url)) THEN "cacheFirst"
    ELSE IF AcceptsHtml(request) THEN "networkFirst"
    ELSE IF UrlOrigin(request.url) # SelfOrigin THEN "cacheFirst"
    ELSE "networkFirst"

\* handleRequest's dispatch (sw.js 93-108).
Strategy(request) ==
    IF AcceptsHtml(request) THEN "networkFirst"
    ELSE IF isStaticAsset(UrlPathname(request.url)) THEN "cacheFirst"
    ELSE IF UrlOrigin(request.url) # SelfOrigin THEN "cacheFirst"
    ELSE "networkFirst"
\* Mutant: handleRequest responds to the event a second time.
Dispatch_RespondsTwice(request) ==
    LET h == [req |-> request, respondWith |-> 0, strategy |-> "none",
              pc |-> "passthrough", fetches |-> 0, held |-> NoResponse,
              result |-> NoResult, error |-> "none", bg |-> "none",
              bgHeld |-> NoResponse, detached |-> FALSE]
    IN  IF ~ Intercepts(request) THEN h
        ELSE IF Strategy(request) = "networkFirst"
        THEN [h EXCEPT !.respondWith = @ + 2, !.strategy = "networkFirst",
                       !.pc = "nf_fetch", !.fetches = @ + 1]
        ELSE [h EXCEPT !.respondWith = @ + 1, !.strategy = "cacheFirst",
                       !.pc = "cf_match"]

\* The synchronous part of the listener and of handleRequest: networkFirst
\* starts its fetch, cacheFirst its cache lookup.
Dispatch(request) ==
    LET h == [req |-> request, respondWith |-> 0, strategy |-> "none",
              pc |-> "passthrough", fetches |-> 0, held |-> NoResponse,
              result |-> NoResult, error |-> "none", bg |-> "none",
              bgHeld |-> NoResponse, detached |-> FALSE]
    IN  IF ~ Intercepts(request) THEN h
        ELSE IF Strategy(request) = "networkFirst"
        THEN [h EXCEPT !.respondWith = @ + 1, !.strategy = "networkFirst",
                       !.pc = "nf_fetch", !.fetches = @ + 1]
        ELSE [h EXCEPT !.respondWith = @ + 1, !.strategy = "cacheFirst",
                       !.pc = "cf_match"]

FetchEvent(request) ==
    /\ worker = "activated"
    /\ BagCardinality(handlers) < MaxEvents
    /\ handlers' = handlers (+) SetToBag({Dispatch(request)})
    /\ UNCHANGED <<messages, cleanup, worker, install, activate, caches, site>>

\* Mutant: the fallback answers 503 whatever the request accepts.
HandleRequestCatch_Always503(h) ==
    [h EXCEPT !.pc = "done", !.held = NoResponse,
              !.result = Synthesized(503, "Resource not available")]

\* handleRequest's catch (sw.js 110-119), up to its await.
HandleRequestCatch(h) ==
    IF AcceptsHtml(h.req)
    THEN [h EXCEPT !.pc = "fb_match", !.held = NoResponse]
    ELSE [h EXCEPT !.pc = "done", !.held = NoResponse,
                   !.result = Synthesized(503, "Resource not available")]

\* await caches.match('/404.html') || new Response('Page not found', ...)
FallbackMatched(h, cachedResponse) ==
    [h EXCEPT !.pc = "done",
              !.result = IF cachedResponse # NoResponse
                         THEN Result("cache", cachedResponse)
                         ELSE Synthesized(404, "Page not found")]

FallbackMatch(h) ==
    /\ h.pc = "fb_match"
    /\ Becomes(h, FallbackMatched(h, CachesMatch(caches, Resolve("/404.html"))))
    /\ UNCHANGED <<messages, cleanup, worker, install, activate, caches, site>>

\* caches.match('/404.html') rejects: the await sits in the catch block, inside
\* no try, so handleRequest's promise rejects.
FallbackMatchFails(h) ==
    /\ h.pc = "fb_match"
    /\ Becomes(h, [h EXCEPT !.pc = "rejected", !.result = Rejected,
                            !.error = "lookup"])
    /\ UNCHANGED <<messages, cleanup, worker, install, activate, caches, site>>

\* updateCache (sw.js 169-172) is two awaits: caches.open, then cache.put.
UpdateCacheOpen(cs) == CachesOpen(cs, CACHE_NAME)

\* Mutant: put keeps the entry a key already has.
UpdateCachePut_KeepsExisting(cs, url, response) ==
    IF url \in DOMAIN Entries(cs, CACHE_NAME) THEN cs
    ELSE CachePut(cs, CACHE_NAME, url, response)

UpdateCachePut(cs, url, response) == CachePut(cs, CACHE_NAME, url, response)

\* Mutant: a put through a handle whose generation was deleted creates the
\* generation anew.
UpdateCachePutThrough_Recreates(detached, cs, url, response) ==
    UpdateCachePut(UpdateCacheOpen(cs), url, response)

\* cache.put through the handle updateCache opened (sw.js 170-171).  Deleting a
\* generation takes it out of the store and leaves the handles on it working:
\* a put through such a handle reaches no generation of the store.
UpdateCachePutThrough(detached, cs, url, response) ==
    IF detached THEN cs ELSE UpdateCachePut(cs, url, response)

(* cacheFirst (sw.js 123-133) *)
\* Mutant: on a hit the handler awaits the revalidation before it returns.
CacheFirstMatched_AwaitsRevalidation(h, cachedResponse) ==
    IF cachedResponse # NoResponse
    THEN [h EXCEPT !.pc = "cf_wait", !.bg = "fetch", !.fetches = @ + 1]
    ELSE [h EXCEPT !.pc = "fc_fetch", !.fetches = @ + 1]

\* caches.match(request) resolved.  On a hit the revalidation is started and the
\* cached response returned in the same continuation; on a miss fetchAndCache
\* starts its fetch.
CacheFirstMatched(h, cachedResponse) ==
    IF cachedResponse # NoResponse
    THEN [h EXCEPT !.pc = "done", !.result = Result("cache", cachedResponse),
                   !.bg = "fetch", !.fetches = @ + 1]
    ELSE [h EXCEPT !.pc = "fc_fetch", !.fetches = @ + 1]

CacheFirstMatch(h) ==
    /\ h.pc = "cf_match"
    /\ Becomes(h, CacheFirstMatched(h, CachesMatch(caches, h.req.url)))
    /\ UNCHANGED <<messages, cleanup, worker, install, activate, caches, site>>

\* caches.match(request) rejects: the error reaches handleRequest's catch.
CacheFirstMatchFails(h) ==
    /\ h.pc = "cf_match"
    /\ Becomes(h, HandleRequestCatch([h EXCEPT !.error = "lookup"]))
    /\ UNCHANGED <<messages, cleanup, worker, install, activate, caches, site>>

(* fetchAndCache (sw.js 158-166) *)
FetchAndCacheFetched(h, response) ==
    IF ok(response)
    THEN [h EXCEPT !.pc = "fc_open", !.held = response]
    ELSE [h EXCEPT !.pc = "done", !.result = Result("network", response)]

FetchAndCacheResolve(h, status) ==
    /\ h.pc = "fc_fetch"
    /\ Becomes(h, FetchAndCacheFetched(h, NetResponse(h.req.url, status)))
    /\ UNCHANGED <<messages, cleanup, worker, install, activate, caches, site>>

\* fetch rejects: the error leaves cacheFirst and reaches handleRequest's catch.
FetchAndCacheReject(h) ==
    /\ h.pc = "fc_fetch"
    /\ Becomes(h, HandleRequestCatch([h EXCEPT !.error = "network"]))
    /\ UNCHANGED <<messages, cleanup, worker, install, activate, caches, site>>

FetchAndCacheOpen(h) ==
    /\ h.pc = "fc_open"
    /\ caches' = UpdateCacheOpen(caches)
    /\ Becomes(h, [h EXCEPT !.pc = "fc_put", !.detached = FALSE])
    /\ UNCHANGED <<messages, cleanup, worker, install, activate, site>>

FetchAndCachePut(h) ==
    /\ h.pc = "fc_put"
    /\ caches' = UpdateCachePutThrough(h.detached, caches, h.req.url, h.held)
    /\ Becomes(h, [h EXCEPT !.pc = "done", !.result = Result("network", h.held),
                            !.held = NoResponse])
    /\ UNCHANGED <<messages, cleanup, worker, install, activate, site>>

\* caches.open or cache.put rejects inside updateCache.
FetchAndCacheStoreFails(h) ==
    /\ h.pc \in {"fc_open", "fc_put"}
    /\ Becomes(h, HandleRequestCatch([h EXCEPT !.error = "store",
                                                !.detached = FALSE]))
    /\ UNCHANGED <<messages, cleanup, worker, install, activate, caches, site>>

(* networkFirst (sw.js 136-155) *)
\* Mutant: the response is stored whatever its status.
NetworkFirstFetched_NoOkCheck(h, networkResponse) ==
    [h EXCEPT !.pc = "nf_open", !.held = networkResponse]
\* Mutant: a response that is not ok is taken for a failure of the network.
NetworkFirstFetched_NonOkIsFailure(h, networkResponse) ==
    IF ok(networkResponse)
    THEN [h EXCEPT !.pc = "nf_open", !.held = networkResponse]
    ELSE [h EXCEPT !.pc = "nf_match", !.error = "network"]
\* Mutant: the response is returned and never stored.
NetworkFirstFetched_NoStore(h, networkResponse) ==
    [h EXCEPT !.pc = "done", !.result = Result("network", networkResponse)]

NetworkFirstFetched(h, networkResponse) ==
    IF ok(networkResponse)
    THEN [h EXCEPT !.pc = "nf_open", !.held = networkResponse]
    ELSE [h EXCEPT !.pc = "done", !.result = Result("network", networkResponse)]

NetworkFirstResolve(h, status) ==
    /\ h.pc = "nf_fetch"
    /\ Becomes(h, NetworkFirstFetched(h, NetResponse(h.req.url, status)))
    /\ UNCHANGED <<messages, cleanup, worker, install, activate, caches, site>>

NetworkFirstOpen(h) ==
    /\ h.pc = "nf_open"
    /\ caches' = UpdateCacheOpen(caches)
    /\ Becomes(h, [h EXCEPT !.pc = "nf_put", !.detached = FALSE])
    /\ UNCHANGED <<messages, cleanup, worker, install, activate, site>>

NetworkFirstPut(h) ==
    /\ h.pc = "nf_put"
    /\ caches' = UpdateCachePutThrough(h.detached, caches, h.req.url, h.held)
    /\ Becomes(h, [h EXCEPT !.pc = "done", !.result = Result("network", h.held),
                            !.held = NoResponse])
    /\ UNCHANGED <<messages, cleanup, worker, install, activate, site>>

\* The catch of networkFirst takes over when the fetch rejects, and also when
\* updateCache rejects, which is awaited inside the same try block.
NetworkFirstCatch(h) ==
    /\ h.pc \in {"nf_fetch", "nf_open", "nf_put"}
    /\ Becomes(h, [h EXCEPT !.pc = "nf_match", !.held = NoResponse,
                            !.detached = FALSE,
                            !.error = IF h.pc = "nf_fetch" THEN "network"
                                      ELSE "store"])
    /\ UNCHANGED <<messages, cleanup, worker, install, activate, caches, site>>

\* Mutant: the catch throws the error again without looking into the cache.
NetworkFirstCatchMatched_SkipsCache(h, cachedResponse) == HandleRequestCatch(h)

\* await caches.match(request) in the catch: the cached response, or the error
\* is thrown again and reaches handleRequest's catch.
NetworkFirstCatchMatched(h, cachedResponse) ==
    IF cachedResponse # NoResponse
    THEN [h EXCEPT !.pc = "done", !.result = Result("cache", cachedResponse)]
    ELSE HandleRequestCatch(h)

NetworkFirstCatchMatch(h) ==
    /\ h.pc = "nf_match"
    /\ Becomes(h, NetworkFirstCatchMatched(h, CachesMatch(caches, h.req.url)))
    /\ UNCHANGED <<messages, cleanup, worker, install, activate, caches, site>>

\* caches.match(request) rejects in the catch of networkFirst: the rejection
\* leaves networkFirst and reaches handleRequest's catch.
NetworkFirstCatchMatchFails(h) ==
    /\ h.pc = "nf_match"
    /\ Becomes(h, HandleRequestCatch([h EXCEPT !.error = "lookup"]))
    /\ UNCHANGED <<messages, cleanup, worker, install, activate, caches, site>>

(* updateCacheInBackground (sw.js 175-185) *)
UpdateCacheInBackgroundFetched(h, response) ==
    IF ok(response)
    THEN [h EXCEPT !.bg = "open", !.bgHeld = response]
    ELSE [h EXCEPT !.bg = "done"]

UpdateCacheInBackgroundResolve(h, status) ==
    /\ h.bg = "fetch"
    /\ Becomes(h, UpdateCacheInBackgroundFetched(h, NetResponse(h.req.url, status)))
    /\ UNCHANGED <<messages, cleanup, worker, install, activate, caches, site>>

UpdateCacheInBackgroundOpen(h) ==
    /\ h.bg = "open"
    /\ caches' = UpdateCacheOpen(caches)
    /\ Becomes(h, [h EXCEPT !.bg = "put", !.detached = FALSE])
    /\ UNCHANGED <<messages, cleanup, worker, install, activate, site>>

UpdateCacheInBackgroundPut(h) ==
    /\ h.bg = "put"
    /\ caches' = UpdateCachePutThrough(h.detached, caches, h.req.url, h.bgHeld)
    /\ Becomes(h, [h EXCEPT !.bg = "done", !.bgHeld = NoResponse])
    /\ UNCHANGED <<messages, cleanup, worker, install, activate, site>>
\* Mutant: a failed revalidation evicts the entry it could not refresh.
BackgroundCatch_Evicts(h) ==
    /\ h.bg \in {"fetch", "open", "put"}
    /\ caches' = [i \in DOMAIN caches |->
                    IF caches[i].name = CACHE_NAME
                    THEN [caches[i] EXCEPT !.entries =
                            [u \in DOMAIN @ \ {h.req.url} |-> @[u]]]
                    ELSE caches[i]]
    /\ Becomes(h, [h EXCEPT !.bg = "failed", !.bgHeld = NoResponse,
                            !.detached = FALSE])
    /\ UNCHANGED <<messages, cleanup, worker, install, activate, site>>

\* Mutant: the failure of the revalidation reaches the handler's promise.
UpdateCacheInBackgroundCatch_Rethrows(h) ==
    /\ h.bg \in {"fetch", "open", "put"}
    /\ caches' = caches
    /\ Becomes(h, [h EXCEPT !.bg = "failed", !.bgHeld = NoResponse,
                            !.detached = FALSE,
                            !.pc = "rejected", !.result = Rejected])
    /\ UNCHANGED <<messages, cleanup, worker, install, activate, site>>

\* .catch(error => { console.log(...) }): a rejected fetch, open or put is
\* logged and nothing else happens.
UpdateCacheInBackgroundCatch(h) ==
    /\ h.bg \in {"fetch", "open", "put"}
    /\ caches' = caches
    /\ Becomes(h, [h EXCEPT !.bg = "failed", !.bgHeld = NoResponse,
                            !.detached = FALSE])
    /\ UNCHANGED <<messages, cleanup, worker, install, activate, site>>

(***************************************************************************)
(* The specification: the worker from its installation on.                 *)
(***************************************************************************)
Next ==
    \/ \E content \in Contents : Deploy(content)
    \/ InstallEvent
    \/ InstallOpen
    \/ InstallOpenFails
    \/ \E failed \in SUBSET StaticUrls : InstallAddAll(failed)
    \/ ActivateEvent
    \/ ActivateKeys
    \/ \E name \in CacheNames(caches) : ActivateDelete(name)
    \/ \E request \in Requests : FetchEvent(request)
    \/ \E h \in Handlers : FallbackMatch(h)
    \/ \E h \in Handlers : FallbackMatchFails(h)
    \/ \E h \in Handlers : CacheFirstMatch(h)
    \/ \E h \in Handlers : CacheFirstMatchFails(h)
    \/ \E h \in Handlers, status \in NetStatuses : FetchAndCacheResolve(h, status)
    \/ \E h \in Handlers : FetchAndCacheReject(h)
    \/ \E h \in Handlers : FetchAndCacheOpen(h)
    \/ \E h \in Handlers : FetchAndCachePut(h)
    \/ \E h \in Handlers : FetchAndCacheStoreFails(h)
    \/ \E h \in Handlers, status \in NetStatuses : NetworkFirstResolve(h, status)
    \/ \E h \in Handlers : NetworkFirstOpen(h)
    \/ \E h \in Handlers : NetworkFirstPut(h)
    \/ \E h \in Handlers : NetworkFirstCatch(h)
    \/ \E h \in Handlers : NetworkFirstCatchMatch(h)
    \/ \E h \in Handlers : NetworkFirstCatchMatchFails(h)
    \/ \E h \in Handlers, status \in NetStatuses : UpdateCacheInBackgroundResolve(h, status)
    \/ \E h \in Handlers : UpdateCacheInBackgroundOpen(h)
    \/ \E h \in Handlers : UpdateCacheInBackgroundPut(h)
    \/ \E h \in Handlers : UpdateCacheInBackgroundCatch(h)

Spec == Init /\ [][Next]_vars

(***************************************************************************)
(* The listener alone: from an activated worker whose install succeeded,   *)
(* fetch events for every combination of method, URL and headers.          *)
(***************************************************************************)
InitDispatch ==
    /\ worker = "activated"
    /\ install = [pc |-> "done", outcome |-> "fulfilled", error |-> FALSE,
                  opened |-> TRUE, precached |-> TRUE, skipWaiting |-> TRUE]
    /\ activate = [pc |-> "done", pending |-> {}]
    /\ caches = << [name |-> CACHE_NAME,
                    entries |-> [u \in StaticUrls |-> Response(200, Body(u, "v1"))]] >>
    /\ site = "v1"
    /\ handlers = EmptyBag
    /\ messages = << >>
    /\ cleanup = NoCleanup

NextDispatch == \E request \in AllRequests : FetchEvent(request)

SpecDispatch == InitDispatch /\ [][NextDispatch]_vars

(***************************************************************************)
(* Dates.  The clock counts milliseconds from 1 October 2026 00:00:00 GMT, *)
(* the month every date of the model lies in.  A response's date header is *)
(* an HTTP date, "Tue, 20 Oct 2026 12:00:00 GMT".                          *)
(***************************************************************************)
\* A time value: a number of milliseconds, or NaN (of an invalid Date).
Time(ms) == [nan |-> FALSE, ms |-> ms]

NaN == [nan |-> TRUE, ms |-> 0]

DigitValue ==
    [c \in {"0", "1", "2", "3", "4", "5", "6", "7", "8", "9"} |->
        CASE c = "0" -> 0 [] c = "1" -> 1 [] c = "2" -> 2 [] c = "3" -> 3
          [] c = "4" -> 4 [] c = "5" -> 5 [] c = "6" -> 6 [] c = "7" -> 7
          [] c = "8" -> 8 [] c = "9" -> 9]

IsDigits(s) == \A i \in 1..Len(s) : SubSeq(s, i, i) \in DOMAIN DigitValue

TwoDigits(s) == 10 * DigitValue[SubSeq(s, 1, 1)] + DigitValue[SubSeq(s, 2, 2)]

\* The strings new Date(s) takes for a date; the day name is not looked at.
IsDate(s) ==
       /\ Len(s) = 29
       /\ SubSeq(s, 4, 5) = ", "
       /\ IsDigits(SubSeq(s, 6, 7))
       /\ SubSeq(s, 8, 17) = " Oct 2026 "
       /\ IsDigits(SubSeq(s, 18, 19)) /\ SubSeq(s, 20, 20) = ":"
       /\ IsDigits(SubSeq(s, 21, 22)) /\ SubSeq(s, 23, 23) = ":"
       /\ IsDigits(SubSeq(s, 24, 25))
       /\ SubSeq(s, 26, 29) = " GMT"
       /\ TwoDigits(SubSeq(s, 6, 7)) \in 1..31
       /\ TwoDigits(SubSeq(s, 18, 19)) < 24
       /\ TwoDigits(SubSeq(s, 21, 22)) < 60
       /\ TwoDigits(SubSeq(s, 24, 25)) < 60

\* new Date(dateHeader).getTime(): a string that is no date gives NaN.
DateParse(s) ==
    IF IsDate(s)
    THEN Time(((((TwoDigits(SubSeq(s, 6, 7)) - 1) * 24
                   + TwoDigits(SubSeq(s, 18, 19))) * 60
                   + TwoDigits(SubSeq(s, 21, 22))) * 60
                   + TwoDigits(SubSeq(s, 24, 25))) * 1000)
    ELSE NaN

\* A response that carries a date header.
DatedResponse(status, body, date) ==
    [status |-> status, body |-> body, date |-> date]

\* response?.headers.get('date'): null when the header is absent.
DateHeader(response) ==
    IF "date" \in DOMAIN response THEN response.date ELSE ""

(***************************************************************************)
(* periodicsync and performCacheCleanup (sw.js 258-288).  The cleanup      *)
(* record follows the pass:                                                *)
(*   requests   the keys still to be visited                               *)
(*   request    the key being visited                                      *)
(*   now        Date.now() as read before the loop                         *)
(*   skipped    the keys whose visit ended in the loop's catch             *)
(*   before     the Cache Store when the event arrived                     *)
(***************************************************************************)
maxAge == 7 * 24 * 60 * 60 * 1000

\* Date.now() at the time of the pass: 20 October 2026 12:00:00.000 GMT and
\* the millisecond after.
Nows == {1684800000, 1684800001}

\* now - responseDate > maxAge: false when responseDate is NaN.
OlderThan(now, responseDate, age) ==
    IF responseDate.nan THEN FALSE ELSE now - responseDate.ms > age

\* Mutant: an entry is expired from the threshold on, not only past it.
Expired_AtThreshold(response, now) ==
    /\ DateHeader(response) # ""
    /\ OlderThan(now, DateParse(DateHeader(response)), maxAge - 1)

\* if (dateHeader) { ...; if (now - responseDate > maxAge) ... }
Expired(response, now) ==
    /\ DateHeader(response) # ""
    /\ OlderThan(now, DateParse(DateHeader(response)), maxAge)

\* cache.delete(request) on the generation called name.
CacheDelete(cs, name, url) ==
    [i \in DOMAIN cs |->
        IF cs[i].name = name
        THEN [cs[i] EXCEPT !.entries =
                [u \in DOMAIN cs[i].entries \ {url} |-> cs[i].entries[u]]]
        ELSE cs[i]]

\* The loop goes on to the next key, or the pass is over.
CleanupNext(c) ==
    IF c.requests = {} THEN [c EXCEPT !.pc = "done", !.request = ""]
    ELSE [c EXCEPT !.pc = "next", !.request = ""]

\* The periodicsync listener: only the tag 'cache-cleanup' starts a pass.
PeriodicSyncEvent(tag) ==
    /\ worker = "activated" /\ cleanup.pc = "idle"
    /\ cleanup' = IF tag = "cache-cleanup"
                  THEN [cleanup EXCEPT !.pc = "open", !.tag = tag, !.before = caches]
                  ELSE [cleanup EXCEPT !.pc = "ignored", !.tag = tag]
    /\ UNCHANGED <<worker, install, activate, caches, site, handlers, messages>>

CleanupOpen ==
    /\ cleanup.pc = "open"
    /\ caches' = CachesOpen(caches, CACHE_NAME)
    /\ cleanup' = [cleanup EXCEPT !.pc = "keys"]
    /\ UNCHANGED <<worker, install, activate, site, handlers, messages>>

\* cache.keys() resolves; Date.now() is read in the same continuation.
CleanupKeys(now) ==
    /\ cleanup.pc = "keys"
    /\ cleanup' = CleanupNext([cleanup EXCEPT
                      !.requests = DOMAIN Entries(caches, CACHE_NAME),
                      !.now = now])
    /\ UNCHANGED <<worker, install, activate, caches, site, handlers, messages>>

\* caches.open or cache.keys rejects: the pass ends before its loop, and the
\* promise given to waitUntil rejects.
CleanupFails ==
    /\ cleanup.pc \in {"open", "keys"}
    /\ cleanup' = [cleanup EXCEPT !.pc = "rejected"]
    /\ UNCHANGED <<worker, install, activate, caches, site, handlers, messages>>

\* for (const request of requests): the next key, in the order of cache.keys().
CleanupVisit(request) ==
    /\ cleanup.pc = "next" /\ request \in cleanup.requests
    /\ cleanup' = [cleanup EXCEPT !.pc = "match", !.request = request,
                                  !.requests = @ \ {request}]
    /\ UNCHANGED <<worker, install, activate, caches, site, handlers, messages>>

\* cache.match(request) resolved (with undefined when the entry is gone).
CleanupMatched(c, response) ==
    IF response # NoResponse /\ Expired(response, c.now)
    THEN [c EXCEPT !.pc = "delete"]
    ELSE CleanupNext(c)

CleanupMatch ==
    /\ cleanup.pc = "match"
    /\ LET entries == Entries(caches, CACHE_NAME)
       IN  cleanup' = CleanupMatched(cleanup,
                          IF cleanup.request \in DOMAIN entries
                          THEN entries[cleanup.request] ELSE NoResponse)
    /\ UNCHANGED <<worker, install, activate, caches, site, handlers, messages>>

CleanupDelete ==
    /\ cleanup.pc = "delete"
    /\ caches' = CacheDelete(caches, CACHE_NAME, cleanup.request)
    /\ cleanup' = CleanupNext(cleanup)
    /\ UNCHANGED <<worker, install, activate, site, handlers, messages>>

\* cache.match or cache.delete rejects: the loop's catch logs the error and the
\* loop goes on.
CleanupEntryFails ==
    /\ cleanup.pc \in {"match", "delete"}
    /\ cleanup' = CleanupNext([cleanup EXCEPT !.skipped = @ \cup {cleanup.request}])
    /\ UNCHANGED <<worker, install, activate, caches, site, handlers, messages>>

(***************************************************************************)
(* The cleanup pass alone: an activated worker, a store whose entries      *)
(* carry every kind of date, and no other event.                           *)
(***************************************************************************)
CleanupUrls == {Resolve("/"), Resolve("/styles.css")}

\* At 20 October 12:00:00: eight days old, seven days and a second, exactly
\* seven days, six days, written an hour in the future, and no date at all.
DateHeaders ==
    { "Mon, 12 Oct 2026 12:00:00 GMT",
      "Tue, 13 Oct 2026 11:59:59 GMT",
      "Tue, 13 Oct 2026 12:00:00 GMT",
      "Wed, 14 Oct 2026 12:00:00 GMT",
      "Tue, 20 Oct 2026 13:00:00 GMT",
      "yesterday" }

CleanupResponses(u) ==
    {Response(200, Body(u, "v1"))}
        \cup {DatedResponse(200, Body(u, "v1"), d) : d \in DateHeaders}

\* The generations a pass can find: the entries of the current one, each
\* present or not, beside a generation of an earlier version whose entries
\* are eight days old.
CleanupStores ==
    LET current ==
            UNION {[U -> UNION {CleanupResponses(u) : u \in U}] : U \in SUBSET CleanupUrls}
        wellKeyed(f) == \A u \in DOMAIN f : f[u] \in CleanupResponses(u)
        old == [name |-> StaleName(1),
                entries |-> [u \in CleanupUrls |->
                    DatedResponse(200, Body(u, StaleContent),
                                  "Mon, 12 Oct 2026 12:00:00 GMT")]]
    IN  {<< >>, <<old>>}
          \cup {<<[name |-> CACHE_NAME, entries |-> f]>> :
                    f \in {g \in current : wellKeyed(g)}}
          \cup {<<old, [name |-> CACHE_NAME, entries |-> f]>> :
                    f \in {g \in current : wellKeyed(g)}}

InitCleanup ==
    /\ worker = "activated"
    /\ install = [pc |-> "done", outcome |-> "fulfilled", error |-> FALSE,
                  opened |-> TRUE, precached |-> TRUE, skipWaiting |-> TRUE]
    /\ activate = [pc |-> "done", pending |-> {}]
    /\ caches \in CleanupStores
    /\ site = "v1"
    /\ handlers = EmptyBag
    /\ messages = << >>
    /\ cleanup = NoCleanup

NextCleanup ==
    \/ \E tag \in {"cache-cleanup", "content-sync"} : PeriodicSyncEvent(tag)
    \/ CleanupOpen
    \/ \E now \in Nows : CleanupKeys(now)
    \/ CleanupFails
    \/ \E request \in CleanupUrls : CleanupVisit(request)
    \/ CleanupMatch
    \/ CleanupDelete
    \/ CleanupEntryFails

SpecCleanup == InitCleanup /\ [][NextCleanup]_vars

(***************************************************************************)
(* Bodies as bytes.  response.text() decodes the body as UTF-8 and         *)
(* new Blob([text]) encodes the text as UTF-8 again.                       *)
(***************************************************************************)
\* U+FFFD, the replacement character, and U+FEFF, the byte order mark.
Replacement == 65533

ByteOrderMark == 65279

\* The continuation bytes a lead byte asks for; 0 for a byte that leads nothing.
Utf8Needed(b) ==
    IF b >= 194 /\ b <= 223 THEN 1
    ELSE IF b >= 224 /\ b <= 239 THEN 2
    ELSE IF b >= 240 /\ b <= 244 THEN 3
    ELSE 0

\* The range of the byte that follows the lead byte b; later ones are 128..191.
Utf8Second(b) ==
    IF b = 224 THEN 160..191
    ELSE IF b = 237 THEN 128..159
    ELSE IF b = 240 THEN 144..191
    ELSE IF b = 244 THEN 128..143
    ELSE 128..191

\* How many of the continuation bytes after the lead byte bytes[1] are there.
Utf8Continued(bytes) ==
    LET need == Utf8Needed(bytes[1])
        valid(k) == /\ k + 1 <= Len(bytes)
                    /\ bytes[k + 1] \in (IF k = 1 THEN Utf8Second(bytes[1])
                                         ELSE 128..191)
        K == {k \in 0..need : \A j \in 1..k : valid(j)}
    IN  CHOOSE k \in K : \A j \in K : j <= k

\* The code point of a complete sequence of 1 + k bytes.
Utf8CodePoint(bytes, k) ==
    IF k = 1 THEN (bytes[1] - 192) * 64 + (bytes[2] - 128)
    ELSE IF k = 2 THEN (bytes[1] - 224) * 4096 + (bytes[2] - 128) * 64
                          + (bytes[3] - 128)
    ELSE (bytes[1] - 240) * 262144 + (bytes[2] - 128) * 4096
            + (bytes[3] - 128) * 64 + (bytes[4] - 128)

\* The length of the longest prefix of s whose elements are all below 128:
\* bytes, or code points, that stand for themselves in UTF-8.
AsciiRun(s) ==
    LET K == {k \in 0..Len(s) : \A j \in 1..k : s[j] < 128}
    IN  CHOOSE k \in K : \A j \in K : j <= k

RECURSIVE Utf8Decode(_)
\* UTF-8 decode with replacement: an ill-formed sequence becomes one U+FFFD
\* and decoding resumes at the byte that broke it.
Utf8Decode(bytes) ==
    IF bytes = << >> THEN << >>
    ELSE IF bytes[1] < 128
    THEN SubSeq(bytes, 1, AsciiRun(bytes))
            \o Utf8Decode(SubSeq(bytes, AsciiRun(bytes) + 1, Len(bytes)))
    ELSE LET need == Utf8Needed(bytes[1])
             k == Utf8Continued(bytes)
         IN  IF need > 0 /\ k = need
             THEN <<Utf8CodePoint(bytes, k)>>
                     \o Utf8Decode(SubSeq(bytes, k + 2, Len(bytes)))
             ELSE <<Replacement>> \o Utf8Decode(SubSeq(bytes, k + 2, Len(bytes)))

\* response.text(): the decoded body without a leading byte order mark.
ResponseText(response) ==
    LET text == Utf8Decode(response.body)
    IN  IF text # << >> /\ text[1] = ByteOrderMark THEN Tail(text) ELSE text

\* The UTF-8 encoding of one code point.
Utf8EncodeOne(c) ==
    IF c < 128 THEN <<c>>
    ELSE IF c < 2048 THEN <<192 + (c \div 64), 128 + (c % 64)>>
    ELSE IF c < 65536
    THEN <<224 + (c \div 4096), 128 + ((c \div 64) % 64), 128 + (c % 64)>>
    ELSE <<240 + (c \div 262144), 128 + ((c \div 4096) % 64),
           128 + ((c \div 64) % 64), 128 + (c % 64)>>

RECURSIVE Utf8Encode(_)
Utf8Encode(text) ==
    IF text = << >> THEN << >>
    ELSE IF text[1] < 128
    THEN SubSeq(text, 1, AsciiRun(text))
            \o Utf8Encode(SubSeq(text, AsciiRun(text) + 1, Len(text)))
    ELSE Utf8EncodeOne(text[1]) \o Utf8Encode(Tail(text))

\* new Blob([text]).size
BlobSize(text) == Len(Utf8Encode(text))

(***************************************************************************)
(* message (sw.js 205-255).  A message record follows one message event:   *)
(*   type, port   event.data.type and whether event.ports[0] exists        *)
(*   cache        the handle getCacheSize holds: a generation of the store *)
(*                by name, or the entries of a generation that was deleted *)
(*                while the handle was held                                *)
(*   requests, request, response, totalSize, skipped   getCacheSize's loop *)
(*   names        the generations caches.keys() listed to clearCache       *)
(*   pending, deleted, failed   the deletions clearCache requested: not    *)
(*                settled yet, completed, and whether one rejected         *)
(*   replies      what was posted to the port                              *)
(*   before       the Cache Store when the event arrived                   *)
(***************************************************************************)
MaxMessages == 1

MessageTypes == {"SKIP_WAITING", "GET_CACHE_SIZE", "CLEAR_CACHE", "PING"}

NoHandle == [name |-> "", detached |-> FALSE, entries |-> NoEntries]

\* The entries seen through a handle.
HandleEntries(cs, handle) ==
    IF handle.detached THEN handle.entries ELSE Entries(cs, handle.name)

\* caches.delete(name) takes the generation out of the store; the handles
\* held on it keep its entries.
Detach(handle, cs, name) ==
    IF handle.name = name /\ ~ handle.detached
    THEN [handle EXCEPT !.detached = TRUE, !.entries = Entries(cs, name)]
    ELSE handle

\* event.ports[0]?.postMessage(data)
PostMessage(m, data) ==
    IF m.port THEN [m EXCEPT !.replies = Append(@, data)] ELSE m
\* The listener's switch (sw.js 208-226), up to the first await.
DispatchMessage(type, port, cs) ==
    LET m == [type |-> type, port |-> port, pc |-> "ignored", cache |-> NoHandle,
              requests |-> {}, request |-> "", response |-> NoResponse,
              totalSize |-> 0, skipped |-> {}, names |-> {}, pending |-> {},
              deleted |-> {}, failed |-> FALSE, replies |-> << >>,
              before |-> cs]
    IN  IF type = "SKIP_WAITING" THEN [m EXCEPT !.pc = "done"]
        ELSE IF type = "GET_CACHE_SIZE" THEN [m EXCEPT !.pc = "gs_open"]
        ELSE IF type = "CLEAR_CACHE" THEN [m EXCEPT !.pc = "cc_keys"]
        ELSE m

MessageEvent(type, port) ==
    /\ worker = "activated"
    /\ Len(messages) < MaxMessages
    /\ messages' = Append(messages, DispatchMessage(type, port, caches))
    /\ install' = IF type = "SKIP_WAITING"
                  THEN [install EXCEPT !.skipWaiting = TRUE] ELSE install
    /\ UNCHANGED <<worker, activate, caches, site, handlers, cleanup>>

(* getCacheSize (sw.js 230-249) *)
\* The loop goes on to the next key, or getCacheSize returns and the size is
\* posted.
GetCacheSizeNext(m) ==
    IF m.requests = {}
    THEN PostMessage([m EXCEPT !.pc = "done", !.request = "",
                               !.response = NoResponse],
                     [size |-> m.totalSize])
    ELSE [m EXCEPT !.pc = "gs_next", !.request = "", !.response = NoResponse]

GetCacheSizeOpen(i) ==
    /\ messages[i].pc = "gs_open"
    /\ caches' = CachesOpen(caches, CACHE_NAME)
    /\ messages' = [messages EXCEPT ![i] =
          [@ EXCEPT !.pc = "gs_keys",
                    !.cache = [NoHandle EXCEPT !.name = CACHE_NAME]]]
    /\ UNCHANGED <<worker, install, activate, site, handlers, cleanup>>

GetCacheSizeKeys(i) ==
    /\ messages[i].pc = "gs_keys"
    /\ messages' = [messages EXCEPT ![i] =
          GetCacheSizeNext([@ EXCEPT
              !.requests = DOMAIN HandleEntries(caches, messages[i].cache)])]
    /\ UNCHANGED <<worker, install, activate, caches, site, handlers, cleanup>>

\* caches.open or cache.keys rejects: getCacheSize rejects and nothing is posted.
GetCacheSizeFails(i) ==
    /\ messages[i].pc \in {"gs_open", "gs_keys"}
    /\ messages' = [messages EXCEPT ![i] = [@ EXCEPT !.pc = "rejected"]]
    /\ UNCHANGED <<worker, install, activate, caches, site, handlers, cleanup>>

GetCacheSizeVisit(i, request) ==
    /\ messages[i].pc = "gs_next" /\ request \in messages[i].requests
    /\ messages' = [messages EXCEPT ![i] =
          [@ EXCEPT !.pc = "gs_match", !.request = request,
                    !.requests = @ \ {request}]]
    /\ UNCHANGED <<worker, install, activate, caches, site, handlers, cleanup>>

\* cache.match(request) resolved: if (response) the body is read next.
GetCacheSizeMatched(m, entries) ==
    IF m.request \in DOMAIN entries
    THEN [m EXCEPT !.pc = "gs_text", !.response = entries[m.request]]
    ELSE GetCacheSizeNext(m)

GetCacheSizeMatch(i) ==
    /\ messages[i].pc = "gs_match"
    /\ messages' = [messages EXCEPT ![i] =
          GetCacheSizeMatched(@, HandleEntries(caches, messages[i].cache))]
    /\ UNCHANGED <<worker, install, activate, caches, site, handlers, cleanup>>
\* totalSize += new Blob([text]).size
GetCacheSizeCounted(m) ==
    [m EXCEPT !.totalSize = @ + BlobSize(ResponseText(m.response))]

GetCacheSizeText(i) ==
    /\ messages[i].pc = "gs_text"
    /\ messages' = [messages EXCEPT ![i] =
          GetCacheSizeNext(GetCacheSizeCounted(@))]
    /\ UNCHANGED <<worker, install, activate, caches, site, handlers, cleanup>>

\* cache.match or response.text() rejects: the loop's catch skips the entry.
GetCacheSizeEntryFails(i) ==
    /\ messages[i].pc \in {"gs_match", "gs_text"}
    /\ messages' = [messages EXCEPT ![i] =
          GetCacheSizeNext([@ EXCEPT !.skipped = @ \cup {messages[i].request}])]
    /\ UNCHANGED <<worker, install, activate, caches, site, handlers, cleanup>>

(* clearCache (sw.js 252-255) *)
\* Mutant: like activate, clearCache spares the current generation.
ClearCacheToDelete_SparesCurrent(cacheNames) ==
    {n \in cacheNames : n # CACHE_NAME}

\* cacheNames.map(name => caches.delete(name)): every generation.
ClearCacheToDelete(cacheNames) == cacheNames

\* caches.delete(name) reaches the fetch handlers that hold a handle on the
\* generation: those between the open and the put of updateCache.
DetachHandler(h, name) ==
    IF name = CACHE_NAME /\ (h.pc \in {"nf_put", "fc_put"} \/ h.bg = "put")
    THEN [h EXCEPT !.detached = TRUE]
    ELSE h

\* Promise.all resolved and clearCache returned: the success is posted.
ClearCacheDone(m) ==
    PostMessage([m EXCEPT !.pc = "done"], [success |-> TRUE])

\* caches.keys() resolves; every deletion is requested at once.
ClearCacheKeys(i) ==
    /\ messages[i].pc = "cc_keys"
    /\ LET names == CacheNames(caches)
           m == [messages[i] EXCEPT !.names = names,
                                    !.pending = ClearCacheToDelete(names)]
       IN  messages' = [messages EXCEPT ![i] =
              IF m.pending = {} THEN ClearCacheDone(m)
              ELSE [m EXCEPT !.pc = "cc_deleting"]]
    /\ UNCHANGED <<worker, install, activate, caches, site, handlers, cleanup>>

\* caches.keys() rejects: clearCache rejects and nothing is posted.
ClearCacheFails(i) ==
    /\ messages[i].pc = "cc_keys"
    /\ messages' = [messages EXCEPT ![i] = [@ EXCEPT !.pc = "rejected",
                                                     !.failed = TRUE]]
    /\ UNCHANGED <<worker, install, activate, caches, site, handlers, cleanup>>

\* One caches.delete(name) completes.  Promise.all resolves with the last one,
\* unless one rejected before; the deletions requested go on after a rejection.
ClearCacheDelete(i, name) ==
    /\ messages[i].pc \in {"cc_deleting", "rejected"}
    /\ name \in messages[i].pending
    /\ caches' = CachesDelete(caches, name)
    /\ messages' =
          [j \in DOMAIN messages |->
              LET m == [messages[j] EXCEPT
                           !.cache = Detach(@, caches, name)]
              IN  IF j # i THEN m
                  ELSE LET m2 == [m EXCEPT !.pending = @ \ {name},
                                           !.deleted = @ \cup {name}]
                       IN  IF m2.pending = {} /\ ~ m2.failed
                           THEN ClearCacheDone(m2) ELSE m2]
    /\ LET detach(h) == DetachHandler(h, name)
       IN  handlers' = BagOfAll(detach, handlers)
    /\ UNCHANGED <<worker, install, activate, site, cleanup>>

\* One caches.delete(name) rejects: Promise.all rejects, clearCache rejects and
\* the then callback never runs.
ClearCacheDeleteFails(i, name) ==
    /\ messages[i].pc \in {"cc_deleting", "rejected"}
    /\ name \in messages[i].pending
    /\ messages' = [messages EXCEPT ![i] =
          [@ EXCEPT !.pc = "rejected", !.failed = TRUE, !.pending = @ \ {name}]]
    /\ UNCHANGED <<worker, install, activate, caches, site, handlers, cleanup>>

(***************************************************************************)
(* The control channel alone: an activated worker, a store whose current   *)
(* generation holds text and binary bodies, and the messages of the page.  *)
(***************************************************************************)
\* 100 bytes of ASCII text.
AsciiBody == [i \in 1..100 |-> 97]

\* The signature of a PNG file and 92 more bytes: 100 bytes.
PngBody == <<137, 80, 78, 71, 13, 10, 26, 10>> \o [i \in 1..92 |-> 0]

\* A style sheet saved with a byte order mark, "a{}" after it: 6 bytes.
BomBody == <<239, 187, 191, 97, 123, 125>>

\* "cafe" with an acute accent on the e, as UTF-8: 5 bytes.
AccentBody == <<99, 97, 102, 195, 169>>

ControlUrls == {Resolve("/styles.css"), Resolve("/logo.png")}

ControlBodies(u) ==
    IF u = Resolve("/logo.png") THEN {PngBody}
    ELSE {AsciiBody, BomBody, AccentBody}

\* The stores a command can find: a stale generation or none, and the current
\* one, if there, with each entry present or not.
ControlStores ==
    LET responses(u) == {Response(200, b) : b \in ControlBodies(u)}
        current ==
            UNION {[U -> UNION {responses(u) : u \in U}] : U \in SUBSET ControlUrls}
        wellKeyed(f) == \A u \in DOMAIN f : f[u] \in responses(u)
    IN  UNION {{StaleCaches(n)}
                 \cup {Append(StaleCaches(n), [name |-> CACHE_NAME, entries |-> f]) :
                          f \in {g \in current : wellKeyed(g)}} :
               n \in {0, 1}}

InitControl ==
    /\ worker = "activated"
    /\ install = [pc |-> "done", outcome |-> "fulfilled", error |-> FALSE,
                  opened |-> TRUE, precached |-> TRUE, skipWaiting |-> TRUE]
    /\ activate = [pc |-> "done", pending |-> {}]
    /\ caches \in ControlStores
    /\ site = "v1"
    /\ handlers = EmptyBag
    /\ messages = << >>
    /\ cleanup = NoCleanup

NextControl ==
    \/ \E type \in MessageTypes, port \in BOOLEAN : MessageEvent(type, port)
    \/ \E i \in DOMAIN messages : GetCacheSizeOpen(i)
    \/ \E i \in DOMAIN messages : GetCacheSizeKeys(i)
    \/ \E i \in DOMAIN messages : GetCacheSizeFails(i)
    \/ \E i \in DOMAIN messages, request \in ControlUrls : GetCacheSizeVisit(i, request)
    \/ \E i \in DOMAIN messages : GetCacheSizeMatch(i)
    \/ \E i \in DOMAIN messages : GetCacheSizeText(i)
    \/ \E i \in DOMAIN messages : GetCacheSizeEntryFails(i)
    \/ \E i \in DOMAIN messages : ClearCacheKeys(i)
    \/ \E i \in DOMAIN messages : ClearCacheFails(i)
    \/ \E i \in DOMAIN messages, name \in CacheNames(caches) : ClearCacheDelete(i, name)
    \/ \E i \in DOMAIN messages : \E name \in messages[i].pending :
          ClearCacheDeleteFails(i, name)

SpecControl == InitControl /\ [][NextControl]_vars

(***************************************************************************)
(* The cutover: a worker whose install succeeded takes over from an        *)
(* earlier version.  Its activation may fail to delete what that version   *)
(* left, it then serves fetch events, and the page may send CLEAR_CACHE    *)
(* while handlers are in flight.                                           *)
(***************************************************************************)
InitCutover ==
    /\ worker = "installed"
    /\ install = [pc |-> "done", outcome |-> "fulfilled", error |-> FALSE,
                  opened |-> TRUE, precached |-> TRUE, skipWaiting |-> TRUE]
    /\ activate = [pc |-> "idle", pending |-> {}]
    /\ \E n \in 0..MaxStale :
          caches = Append(StaleCaches(n),
                          [name |-> CACHE_NAME,
                           entries |-> [u \in StaticUrls |->
                                           Response(200, Body(u, "v1"))]])
    /\ site = "v1"
    /\ handlers = EmptyBag
    /\ messages = << >>
    /\ cleanup = NoCleanup

NextCutover ==
    \/ ActivateEvent
    \/ ActivateKeys
    \/ ActivateKeysFails
    \/ \E name \in CacheNames(caches) : ActivateDelete(name)
    \/ \E name \in activate.pending : ActivateDeleteFails(name)
    \/ \E request \in Requests : FetchEvent(request)
    \/ \E h \in Handlers : FallbackMatch(h)
    \/ \E h \in Handlers : FallbackMatchFails(h)
    \/ \E h \in Handlers : CacheFirstMatch(h)
    \/ \E h \in Handlers : CacheFirstMatchFails(h)
    \/ \E h \in Handlers, status \in NetStatuses : FetchAndCacheResolve(h, status)
    \/ \E h \in Handlers : FetchAndCacheReject(h)
    \/ \E h \in Handlers : FetchAndCacheOpen(h)
    \/ \E h \in Handlers : FetchAndCachePut(h)
    \/ \E h \in Handlers : FetchAndCacheStoreFails(h)
    \/ \E h \in Handlers, status \in NetStatuses : NetworkFirstResolve(h, status)
    \/ \E h \in Handlers : NetworkFirstOpen(h)
    \/ \E h \in Handlers : NetworkFirstPut(h)
    \/ \E h \in Handlers : NetworkFirstCatch(h)
    \/ \E h \in Handlers : NetworkFirstCatchMatch(h)
    \/ \E h \in Handlers : NetworkFirstCatchMatchFails(h)
    \/ \E h \in Handlers, status \in NetStatuses : UpdateCacheInBackgroundResolve(h, status)
    \/ \E h \in Handlers : UpdateCacheInBackgroundOpen(h)
    \/ \E h \in Handlers : UpdateCacheInBackgroundPut(h)
    \/ \E h \in Handlers : UpdateCacheInBackgroundCatch(h)

SpecCutover == InitCutover /\ [][NextCutover]_vars

(***************************************************************************)
(* CLEAR_CACHE beside fetch handlers: an activated worker, the store as    *)
(* activation left it (the current generation, and a generation of an      *)
(* earlier version if its deletion failed), fetch events and the command.  *)
(***************************************************************************)
\* The requests served beside the command, one for each way to a cache write:
\* a page (network-first), a style sheet that is pre-cached (a hit and its
\* revalidation) and one that is not (a miss).
ClearRequests ==
    { [method |-> "GET", url |-> Resolve("/styles.css"),
       headers |-> {<<"Accept", "text/html,application/xhtml+xml">>}],
      [method |-> "GET", url |-> Resolve("/styles.css"),
       headers |-> {<<"Accept", "text/css,*/*;q=0.1">>}],
      [method |-> "GET", url |-> "https://fonts.googleapis.com/css2?family=Inter",
       headers |-> {<<"Accept", "text/css,*/*;q=0.1">>}] }

InitClear ==
    /\ worker = "activated"
    /\ install = [pc |-> "done", outcome |-> "fulfilled", error |-> FALSE,
                  opened |-> TRUE, precached |-> TRUE, skipWaiting |-> TRUE]
    /\ \E n \in {0, 1} :
          /\ activate = [pc |-> IF n = 0 THEN "done" ELSE "rejected",
                         pending |-> {}]
          /\ caches = Append(StaleCaches(n),
                             [name |-> CACHE_NAME,
                              entries |-> [u \in StaticUrls |->
                                              Response(200, Body(u, "v1"))]])
    /\ site = "v1"
    /\ handlers = EmptyBag
    /\ messages = << >>
    /\ cleanup = NoCleanup

\* The server answers every fetch with an ok response and the store completes
\* every operation: the steps are the lookups, opens, puts and deletions.
NextClear ==
    \/ \E request \in ClearRequests : FetchEvent(request)
    \/ \E h \in Handlers : CacheFirstMatch(h)
    \/ \E h \in Handlers : FetchAndCacheResolve(h, 200)
    \/ \E h \in Handlers : FetchAndCacheOpen(h)
    \/ \E h \in Handlers : FetchAndCachePut(h)
    \/ \E h \in Handlers : NetworkFirstResolve(h, 200)
    \/ \E h \in Handlers : NetworkFirstOpen(h)
    \/ \E h \in Handlers : NetworkFirstPut(h)
    \/ \E h \in Handlers : UpdateCacheInBackgroundResolve(h, 200)
    \/ \E h \in Handlers : UpdateCacheInBackgroundOpen(h)
    \/ \E h \in Handlers : UpdateCacheInBackgroundPut(h)
    \/ MessageEvent("CLEAR_CACHE", TRUE)
    \/ \E i \in DOMAIN messages : ClearCacheKeys(i)
    \/ \E i \in DOMAIN messages, name \in CacheNames(caches) : ClearCacheDelete(i, name)

SpecClear == InitClear /\ [][NextClear]_vars

(***************************************************************************)
(* Properties.                                                             *)
(***************************************************************************)
\* The requests the worker is to answer: GET, same-origin or allowed origin.
Eligible(request) ==
    /\ request.method = "GET"
    /\ \/ UrlOrigin(request.url) = SelfOrigin
       \/ UrlOrigin(request.url) \in allowedOrigins

ForeignUrl(url) ==
    UrlOrigin(url) # SelfOrigin /\ UrlOrigin(url) \notin allowedOrigins

\* The URLs of the site's own origin and of the allowed origins, and the others.
NativeUrls == {u \in AllUrls \cup StaticUrls : ~ ForeignUrl(u)}

ForeignUrls == {u \in AllUrls \cup StaticUrls : ForeignUrl(u)}

\* The handler records a step acts on: those with fewer copies afterwards.
Actors == {h \in Handlers : CopiesIn(h, handlers') < CopiesIn(h, handlers)}

\* C1: a fetch event whose URL is cross-origin and not of an allowed origin is
\* never responded to, no handler continuation or network fetch exists for
\* it, and no generation of the Cache Store holds an entry for such a URL.
C1_ForeignOriginPassesThrough ==
    /\ \A h \in Handlers :
          h.req.url \in ForeignUrls =>
             /\ h.respondWith = 0
             /\ h.pc = "passthrough"
             /\ h.fetches = 0
             /\ h.bg = "none"
    /\ \A i \in DOMAIN caches :
          \A u \in DOMAIN caches[i].entries : u \in NativeUrls

\* A GET for a foreign URL has been dispatched while the handler of another
\* event has written to the store.
C1_Witness ==
    /\ \E h \in Handlers : h.req.method = "GET" /\ h.req.url \in ForeignUrls
    /\ \E h \in Handlers : h.pc = "done" /\ h.result.kind = "network" /\ ok(h.result)

\* C2: a fetch event whose method is not GET is never responded to and starts
\* no network fetch, whatever its URL and headers, and every step that
\* changes the Cache Store is a step of the handler of a GET request.
C2_NonGetPassesThrough ==
    [][ /\ \A h \in BagToSet(handlers') :
              h.req.method # "GET" =>
                 h.respondWith = 0 /\ h.fetches = 0 /\ h.pc = "passthrough"
        /\ (caches' # caches /\ worker = "activated") =>
              (Actors # {} /\ \A h \in Actors : h.req.method = "GET")
      ]_vars

\* A POST to a same-origin URL with an HTML Accept header has been dispatched
\* and sits beside a handler that stored a response.
C2_Witness ==
    /\ \E h \in Handlers :
          /\ h.req.method = "POST"
          /\ UrlOrigin(h.req.url) = SelfOrigin
          /\ AcceptsHtml(h.req)
    /\ \E h \in Handlers : h.pc = "done" /\ h.result.kind = "network" /\ ok(h.result)

\* C3: respondWith has been called exactly once for every eligible fetch event
\* and never for any other, in every state of every interleaving of the
\* handlers.
C3_RespondWithExactlyOnce ==
    \A h \in Handlers : h.respondWith =
            IF h.req.method = "GET" /\ h.req.url \in NativeUrls THEN 1 ELSE 0

\* Two eligible events of an allowed origin: one answered from the network, the
\* other from the cache with its revalidation about to store.
C3_Witness ==
    \E h1, h2 \in Handlers :
        /\ Eligible(h1.req) /\ Eligible(h2.req)
        /\ UrlOrigin(h1.req.url) \in allowedOrigins
        /\ h1.pc = "done" /\ h1.result.kind = "cache" /\ h1.bg = "put"
        /\ h2.pc = "done" /\ h2.result.kind = "network"

\* The reference classification of the Strategy Selector, first match wins.
Classify(request) ==
    IF \E h \in request.headers : h[1] = "Accept" /\ includes(h[2], "text/html")
    THEN "networkFirst"
    ELSE IF \E ext \in {".css", ".js", ".png", ".jpg", ".jpeg", ".gif", ".svg",
                        ".webp", ".ico", ".woff", ".woff2"} :
               endsWith(UrlPathname(request.url), ext)
    THEN "cacheFirst"
    ELSE IF UrlOrigin(request.url) # SelfOrigin
    THEN "cacheFirst"
    ELSE "networkFirst"

\* C4: the strategy handleRequest applies to an intercepted request is the
\* reference classification; an HTML request is handled network-first even
\* for a .css or .js path and for an allowed cross-origin host.
C4_StrategyIsClassification ==
    \A h \in Handlers :
        /\ h.respondWith > 0 => h.strategy = Classify(h.req)
        /\ (Eligible(h.req) /\ AcceptsHtml(h.req)) => h.strategy = "networkFirst"

\* An HTML request for a .css path and an HTML request to an allowed
\* cross-origin host have both been dispatched.
C4_Witness ==
    \E h1, h2 \in Handlers :
        /\ AcceptsHtml(h1.req) /\ endsWith(UrlPathname(h1.req.url), ".css")
        /\ UrlOrigin(h1.req.url) = SelfOrigin /\ h1.strategy = "networkFirst"
        /\ AcceptsHtml(h2.req) /\ UrlOrigin(h2.req.url) \in allowedOrigins
        /\ h2.strategy = "networkFirst"

\* C5: every entry of every generation of the Cache Store was captured from a
\* response with an ok (2xx) status.
C5_OnlyOkResponsesCached ==
    \A i \in DOMAIN caches :
        \A u \in DOMAIN caches[i].entries :
            /\ caches[i].entries[u].status >= 200
            /\ caches[i].entries[u].status <= 299

\* A network-first handler returned a non-ok response while the store holds an
\* entry that a handler wrote (for a URL the install does not pre-cache).
C5_Witness ==
    /\ \E h \in Handlers :
          /\ h.strategy = "networkFirst" /\ h.pc = "done"
          /\ h.result.kind = "network" /\ h.result.status = 404
    /\ \E u \in DOMAIN Entries(caches, CACHE_NAME) : u \notin StaticUrls

\* C6: when the activate handler completes, exactly one generation exists and
\* it is the current one, however many stale generations there were and
\* whether or not the install before it pre-cached anything.
C6_OneGenerationAfterActivate ==
    [][ (activate.pc # "done" /\ activate'.pc = "done") =>
            CacheNames(caches') = {CACHE_NAME} ]_vars

\* C7: an install in which opening the cache or the pre-cache failed ends with
\* the promise given to waitUntil rejected and the worker not installed.
C7_InstallFailurePropagates ==
    (install.pc = "done" /\ ~ install.precached) =>
        (install.outcome = "rejected" /\ worker = "redundant")

\* C8: after an install attempt whose pre-cache failed, the current generation
\* holds no entry of that attempt and no step of the worker removes or alters
\* a generation of an earlier version.
C8_PreviousGenerationSurvives ==
    [][ (install.error /\ install.opened) =>
           /\ (worker # "activated" => Entries(caches, CACHE_NAME) = NoEntries)
           /\ \A i \in DOMAIN caches :
                 caches[i].name # CACHE_NAME =>
                    \E j \in DOMAIN caches' : caches'[j] = caches[i] ]_vars

\* The URLs a lookup of the worker can ask for.
LookupUrls == Urls \cup StaticUrls

\* The handler records a step produces: those with more copies afterwards.
Produced == {h \in BagToSet(handlers') : CopiesIn(h, handlers') > CopiesIn(h, handlers)}

\* A cache-first hit returns the entry the lookup found (a lookup that itself
\* fails finds nothing and starts no fetch).
HitReturnsEntryFound ==
    \A h \in Actors :
        (h.pc = "cf_match" /\ CachesMatch(caches, h.req.url) # NoResponse) =>
            \A h2 \in Produced :
                h2.fetches > h.fetches =>
                    /\ h2.pc = "done"
                    /\ h2.result = Result("cache", CachesMatch(caches, h.req.url))

\* A step of a revalidation that is not its completed put (its fetch resolving,
\* its open, its failure) leaves every lookup's answer as it was.
RevalidationChangesNothingUntilPut ==
    \A h \in Actors :
        (h.pc = "done" /\ h.bg # "none"
            /\ ~ (h.bg = "put" /\ \A h2 \in Produced : h2.bg = "done")) =>
            \A u \in LookupUrls : CachesMatch(caches', u) = CachesMatch(caches, u)

\* C9 as stated: for a request served cache-first, the answer is the entry found
\* at lookup, and once a cache-first request for a URL has been answered from
\* the cache, the entry a lookup of that URL finds is replaced only by the
\* completed put of a revalidation of that URL.
C9_OnlyRevalidationPutChangesEntry ==
    [][ /\ HitReturnsEntryFound
        /\ RevalidationChangesNothingUntilPut
        /\ \A u \in LookupUrls :
              (/\ worker = "activated"
               /\ \E h0 \in Handlers :
                     /\ h0.req.url = u /\ h0.strategy = "cacheFirst"
                     /\ h0.result.kind = "cache"
               /\ CachesMatch(caches, u) # NoResponse
               /\ CachesMatch(caches', u) # CachesMatch(caches, u)) =>
                  \E h \in Actors :
                      h.req.url = u /\ h.pc = "done" /\ h.bg = "put" ]_vars

\* C9 amended: the entry is replaced only by a completed put for that URL: of
\* a revalidation, or of another handler storing the response it fetched for
\* the same URL (network-first, or cache-first after a miss).
C9_OnlyPutForKeyChangesEntry ==
    [][ /\ HitReturnsEntryFound
        /\ RevalidationChangesNothingUntilPut
        /\ \A u \in LookupUrls :
              (/\ worker = "activated"
               /\ \E h0 \in Handlers :
                     /\ h0.req.url = u /\ h0.strategy = "cacheFirst"
                     /\ h0.result.kind = "cache"
               /\ CachesMatch(caches, u) # NoResponse
               /\ CachesMatch(caches', u) # CachesMatch(caches, u)) =>
                  \E h \in Actors :
                      /\ h.req.url = u
                      /\ \/ h.pc = "done" /\ h.bg = "put"
                         \/ h.pc \in {"nf_put", "fc_put"} ]_vars

\* A cache-first hit has returned the old body of a URL whose entry has since
\* been replaced with the new content, while the revalidation the hit started
\* has failed.
C9_Witness ==
    \E h \in Handlers :
        /\ h.strategy = "cacheFirst" /\ h.pc = "done" /\ h.bg = "failed"
        /\ h.result.kind = "cache"
        /\ CachesMatch(caches, h.req.url) # NoResponse
        /\ CachesMatch(caches, h.req.url).body # h.result.body

\* C10: whenever a revalidation exists, pending or over, the request that
\* started it has already been answered with the cached response: the answer
\* does not wait for the revalidation's fetch.
C10_HitAnsweredBeforeRevalidation ==
    \A h \in Handlers :
        h.bg # "none" => (h.pc = "done" /\ h.result.kind = "cache")

\* The cached response has been returned and the revalidation's fetch is still
\* pending.
C10_Witness ==
    \E h \in Handlers :
        h.strategy = "cacheFirst" /\ h.pc = "done" /\ h.bg = "fetch"

\* The response a result was made from.
ResponseOf(result) == Response(result.status, result.body)

C12_FallbackResponses ==
    [][ /\ \A h \in BagToSet(handlers') :
            /\ h.pc = "fb_match" => AcceptsHtml(h.req)
            /\ h.result.kind = "synthesized" =>
                  IF AcceptsHtml(h.req)
                  THEN h.result = Synthesized(404, "Page not found")
                  ELSE h.result = Synthesized(503, "Resource not available")
            /\ (h.pc = "done" /\ h.error # "none" /\ ~ AcceptsHtml(h.req)) =>
                  h.result.kind \in {"cache", "synthesized"}
        /\ \A h \in Actors : \A h2 \in Produced :
            (h.pc = "fb_match" /\ h2.pc = "done") =>
                h2.result =
                    IF CachesMatch(caches, Resolve("/404.html")) # NoResponse
                    THEN Result("cache", CachesMatch(caches, Resolve("/404.html")))
                    ELSE Synthesized(404, "Page not found")
      ]_vars

\* An HTML request whose strategy failed has been answered with the cached
\* /404.html, and another request with a synthesized 503.
C12_Witness ==
    \E h1, h2 \in Handlers :
        /\ AcceptsHtml(h1.req) /\ h1.req.url # Resolve("/404.html")
        /\ h1.pc = "done" /\ h1.error = "network"
        /\ h1.result = Result("cache", CachesMatch(caches, Resolve("/404.html")))
        /\ h2.pc = "done" /\ h2.result = Synthesized(503, "Resource not available")

\* C13: whatever fails (the network, a lookup, an open, a put) while a worker
\* whose install succeeded handles a fetch event, the promise handleRequest
\* gave to respondWith never rejects.
C13_HandleRequestNeverRejects ==
    install.precached =>
        \A h \in Handlers : h.pc # "rejected" /\ h.result.kind # "rejected"

\* C17: from the moment a network-first handler holds the ok response it
\* fetched, it keeps that response until it returns it: no outcome of the
\* cache write makes it return anything else.
C17_LiveResponseReturned ==
    [][ \A h \in Actors : \A h2 \in Produced :
            (install.precached /\ h.pc \in {"nf_open", "nf_put"}) =>
                \/ h2.pc \in {"nf_open", "nf_put"} /\ h2.held = h.held
                \/ h2.pc = "done" /\ h2.result = Result("network", h.held)
      ]_vars

\* C18: when the lookup that follows a failed network fetch of a network-first
\* handler resolves, the handler returns the entry found if there is one, and
\* only without one passes the failure to the fallback; the step leaves the
\* Cache Store as it was.
C18_NetworkFailureFallsBackToCache ==
    [][ \A h \in Actors : \A h2 \in Produced :
            (h.pc = "nf_match" /\ h.error = "network" /\ h2.error # "lookup") =>
                /\ caches' = caches
                /\ IF CachesMatch(caches, h.req.url) # NoResponse
                   THEN /\ h2.pc = "done"
                        /\ h2.result = Result("cache", CachesMatch(caches, h.req.url))
                   ELSE /\ h2.pc \in {"fb_match", "done"}
                        /\ h2.pc = "done" => h2.result.kind = "synthesized"
      ]_vars

\* A network-first handler whose fetch failed has returned the entry of its URL.
C18_Witness ==
    \E h \in Handlers :
        /\ h.strategy = "networkFirst" /\ h.error = "network" /\ h.pc = "done"
        /\ h.result = Result("cache", CachesMatch(caches, h.req.url))

\* C19: a step in which a revalidation fails (its fetch, open or put rejects,
\* or the fetched response is not ok) leaves the Cache Store as it was and the
\* handler that started it as it was, answered with the cached response; the
\* failure rejects no promise.
C19_FailedRevalidationHasNoEffect ==
    [][ \A h \in Actors : \A h2 \in Produced :
            (\/ h2.bg = "failed" /\ h.bg # "failed"
             \/ h.bg = "fetch" /\ h2.bg = "done") =>
                /\ caches' = caches
                /\ h2.pc = "done" /\ h.pc = "done"
                /\ h2.result = h.result /\ h2.result.kind = "cache"
                /\ h2.error = h.error
                /\ BagCardinality(handlers') = BagCardinality(handlers)
      ]_vars

\* One revalidation has failed and another has ended, and the entries both
\* handlers were answered with are still in the store.
C19_Witness ==
    \E h1, h2 \in Handlers :
        /\ h1.bg = "failed" /\ h2.bg = "done" /\ h2.bgHeld = NoResponse
        /\ h1.result = Result("cache", CachesMatch(caches, h1.req.url))
        /\ h2.result = Result("cache", CachesMatch(caches, h2.req.url))

\* The bodies an entry of URL u can be: a whole response served for u.
WholeBodies(u) == {Body(u, c) : c \in Contents \cup {StaleContent}}

\* C20: the step in which a put completes (of a network-first handler, of a
\* cache-first miss or of a revalidation) leaves exactly the response given
\* to that put as the entry of its key, whatever an earlier put stored, and
\* every other entry as it was; an entry is always one whole response.
C20_LastPutWins ==
    [][ /\ \A h \in Actors : \A h2 \in Produced :
            LET putHandler == h.pc \in {"nf_put", "fc_put"} /\ h2.pc = "done"
                                /\ h2.result.kind = "network"
                putBackground == h.bg = "put" /\ h2.bg = "done"
                response == IF putBackground THEN h.bgHeld ELSE h.held
            IN  (putHandler \/ putBackground) =>
                   /\ CACHE_NAME \in CacheNames(caches)
                   /\ Entries(caches', CACHE_NAME) =
                         (h.req.url :> response) @@ Entries(caches, CACHE_NAME)
                   /\ Entries(caches', CACHE_NAME)[h.req.url] = response
        /\ \A i \in DOMAIN caches' : \A u \in DOMAIN caches'[i].entries :
              /\ caches'[i].entries[u].status = 200
              /\ caches'[i].entries[u].body \in WholeBodies(u)
      ]_vars

\* A request was answered with the entry of its URL and its revalidation has
\* ended; another handler stored other content for the same URL since, and
\* that is the entry.
C20_Witness ==
    \E h1, h2 \in Handlers :
        /\ h1.req.url = h2.req.url
        /\ h1.pc = "done" /\ h1.result.kind = "cache" /\ h1.bg = "done"
        /\ h1.bgHeld = NoResponse
        /\ h2.pc = "done" /\ h2.result.kind = "network" /\ ok(h2.result)
        /\ h1.result.body # h2.result.body
        /\ CachesMatch(caches, h1.req.url) = ResponseOf(h2.result)

\* The date headers that lie more than seven days before `now'.
OlderThanSevenDays(now) ==
    IF now = 1684800000
    THEN {"Mon, 12 Oct 2026 12:00:00 GMT", "Tue, 13 Oct 2026 11:59:59 GMT"}
    ELSE {"Mon, 12 Oct 2026 12:00:00 GMT", "Tue, 13 Oct 2026 11:59:59 GMT",
          "Tue, 13 Oct 2026 12:00:00 GMT"}

\* C14: a cleanup pass that ran alone and skipped no entry has deleted from the
\* current generation exactly the entries whose date lies more than seven
\* days before the pass's `now' (eight days: deleted; six days, exactly seven
\* days, no date: retained), has left the retained entries as they were, and
\* has left every other generation as it was.
C14_CleanupDeletesExactlyExpired ==
    (cleanup.pc = "done" /\ cleanup.skipped = {}) =>
        LET before == Entries(cleanup.before, CACHE_NAME)
            after == Entries(caches, CACHE_NAME)
        IN  /\ DOMAIN after =
                  {u \in DOMAIN before :
                      ~ (/\ "date" \in DOMAIN before[u]
                         /\ before[u].date \in OlderThanSevenDays(cleanup.now))}
            /\ \A u \in DOMAIN after : after[u] = before[u]
            /\ \A i \in DOMAIN cleanup.before :
                  cleanup.before[i].name # CACHE_NAME =>
                      \E j \in DOMAIN caches : caches[j] = cleanup.before[i]
            /\ CacheNames(caches) = CacheNames(cleanup.before) \cup {CACHE_NAME}

\* A pass at 12:00:00.000 is over: it found / eight days old and /styles.css
\* exactly seven days old beside an older generation, and only / is gone.
C14_Witness ==
    /\ cleanup.pc = "done" /\ cleanup.skipped = {} /\ cleanup.now = 1684800000
    /\ Len(cleanup.before) = 2
    /\ Entries(cleanup.before, CACHE_NAME) =
          (Resolve("/") :> DatedResponse(200, Body(Resolve("/"), "v1"),
                                         "Mon, 12 Oct 2026 12:00:00 GMT"))
          @@ (Resolve("/styles.css") :>
                 DatedResponse(200, Body(Resolve("/styles.css"), "v1"),
                               "Tue, 13 Oct 2026 12:00:00 GMT"))
    /\ DOMAIN Entries(caches, CACHE_NAME) = {Resolve("/styles.css")}
    /\ DOMAIN Entries(caches, StaleName(1)) = CleanupUrls

RECURSIVE SumOfBodySizes(_, _)
\* The sum of the sizes in bytes of the bodies of the entries under `urls'.
SumOfBodySizes(entries, urls) ==
    IF urls = {} THEN 0
    ELSE LET u == CHOOSE v \in urls : TRUE
         IN  Len(entries[u].body) + SumOfBodySizes(entries, urls \ {u})

\* C15: the reply to a GET_CACHE_SIZE that was the only command in flight and
\* skipped no entry is { size: n }, n the sum of the body sizes of the entries
\* the current generation held when the command arrived (0 when it held
\* none, 100 for one entry with a body of 100 bytes), whatever other
\* generations hold.
C15_SizeIsSumOfBodySizes ==
    \A i \in DOMAIN messages :
        (/\ messages[i].type = "GET_CACHE_SIZE" /\ messages[i].port
         /\ messages[i].pc = "done" /\ messages[i].skipped = {}
         /\ Len(messages) = 1) =>
            LET entries == Entries(messages[i].before, CACHE_NAME)
            IN  messages[i].replies =
                    <<[size |-> SumOfBodySizes(entries, DOMAIN entries)]>>

\* C16: a CLEAR_CACHE requests the deletion of every generation the store
\* holds, each deletion that completes takes its generation out of the store,
\* and { success: true } is posted, once, only when every deletion has
\* completed (the store is empty then, if no other command ran); nothing is
\* posted when caches.keys or a deletion failed.
C16_ClearCacheRepliesAfterDeletions ==
    [][ \A i \in DOMAIN messages' :
          LET m2 == messages'[i]
          IN  m2.type = "CLEAR_CACHE" =>
                /\ m2.replies \in {<< >>, <<[success |-> TRUE]>>}
                /\ m2.replies # << >> =>
                      /\ m2.port /\ m2.pc = "done" /\ m2.pending = {}
                      /\ ~ m2.failed /\ m2.deleted = m2.names
                /\ m2.failed => m2.replies = << >>
                /\ (m2.pc = "done" /\ Len(messages') = 1) => caches' = << >>
                /\ (m2.pc = "done" /\ m2.port) => m2.replies # << >>
                /\ (i \in DOMAIN messages /\ messages[i].pc = "cc_keys"
                        /\ m2.pc # "cc_keys" /\ ~ m2.failed) =>
                      /\ m2.names = CacheNames(caches)
                      /\ m2.pending = m2.names
                /\ i \in DOMAIN messages =>
                      \A name \in m2.deleted \ messages[i].deleted :
                          /\ name \in messages[i].pending
                          /\ name \notin CacheNames(caches')
      ]_vars

\* A CLEAR_CACHE that found the current generation and a stale one has posted
\* its success, and the store is empty.
C16_Witness ==
    \E i \in DOMAIN messages :
        /\ messages[i].type = "CLEAR_CACHE"
        /\ messages[i].replies = <<[success |-> TRUE]>>
        /\ {CACHE_NAME, StaleName(1)} \subseteq messages[i].names
        /\ Entries(messages[i].before, CACHE_NAME) # NoEntries
        /\ caches = << >>

\* The current generation holds the pre-cache of the content being served.
Precached(cs, content) ==
    \A u \in StaticUrls :
        /\ u \in DOMAIN Entries(cs, CACHE_NAME)
        /\ Entries(cs, CACHE_NAME)[u] = Response(200, Body(u, content))

\* C21: the install handler asks to skip waiting only in a step after which
\* every entry of the Static Resource List is stored in the current generation,
\* and an install whose open or pre-cache failed never asks for it.
C21_SkipWaitingOnlyAfterPrecache ==
    [][ /\ (~ install.skipWaiting /\ install'.skipWaiting) =>
              /\ install'.precached
              /\ CACHE_NAME \in CacheNames(caches')
              /\ Precached(caches', site')
        /\ install'.error => ~ install'.skipWaiting ]_vars

\* The install succeeded beside a generation of an earlier version: the worker
\* asked to skip waiting and the whole list is in the current generation.
C21_Witness ==
    /\ install.pc = "done" /\ install.skipWaiting /\ worker = "installed"
    /\ Precached(caches, site)
    /\ StaleName(1) \in CacheNames(caches)

\* The statuses of the server that are not ok.
NonOkStatuses == {status \in NetStatuses : ~ ok(Response(status, ""))}

\* C24: the step in which the fetch of a network-first handler or of a
\* cache-first miss resolves with a status that is not ok ends the handler with
\* that very response as its result, with no lookup, no fallback and no caught
\* failure, and leaves the Cache Store as it was.
C24_NonOkResponsePassesThrough ==
    [][ \A h \in Handlers : \A status \in NonOkStatuses :
            (NetworkFirstResolve(h, status) \/ FetchAndCacheResolve(h, status)) =>
                /\ caches' = caches
                /\ [h EXCEPT !.pc = "done",
                             !.result = Result("network",
                                               NetResponse(h.req.url, status))]
                      \in Produced
                /\ \A h2 \in Produced :
                      /\ h2.error = "none" /\ h2.result.kind = "network"
                      /\ h2.result.status = status
      ]_vars

\* A network-first handler returned the 404 of the server although the store
\* holds an entry for its URL, and a cache-first miss returned a 404 as well;
\* neither response was stored.
C24_Witness ==
    \E h1, h2 \in Handlers :
        /\ h1.strategy = "networkFirst" /\ h1.pc = "done"
        /\ h1.result = Result("network", Response(404, "error page"))
        /\ CachesMatch(caches, h1.req.url) # NoResponse
        /\ ok(CachesMatch(caches, h1.req.url))
        /\ h2.strategy = "cacheFirst" /\ h2.pc = "done" /\ h2.bg = "none"
        /\ h2.result = Result("network", Response(404, "error page"))
        /\ CachesMatch(caches, h2.req.url) = NoResponse

\* A step in which updateCache's caches.open completes for h, becoming h2.
OpenStep(h, h2) ==
    \/ h.pc \in {"nf_open", "fc_open"} /\ h2.pc \in {"nf_put", "fc_put"}
    \/ h.bg = "open" /\ h2.bg = "put"

\* A step in which updateCache's cache.put completes for h, becoming h2.
PutStep(h, h2) ==
    \/ h.pc \in {"nf_put", "fc_put"} /\ h2.pc = "done" /\ h2.result.kind = "network"
    \/ h.bg = "put" /\ h2.bg = "done"

\* The response given to the put of h.
PutResponse(h) == IF h.bg = "put" THEN h.bgHeld ELSE h.held

\* No generation other than the current one is created or gets an entry
\* added or overwritten by the step.
StaleGenerationsNotWritten ==
    \A i \in DOMAIN caches' :
        caches'[i].name # CACHE_NAME =>
            \E j \in DOMAIN caches : caches[j] = caches'[i]

\* A CLEAR_CACHE command has completed and replied.
ClearCacheCompleted ==
    \E i \in DOMAIN messages :
        messages[i].type = "CLEAR_CACHE" /\ messages[i].pc = "done"

\* C22 as stated: no step writes to a generation other than the current one,
\* every open leaves the current generation in the store, and once a
\* CLEAR_CACHE has completed every put of a handler leaves the current
\* generation in the store holding the entry put.
C22_PutAfterClearRecreatesEntry ==
    [][ /\ StaleGenerationsNotWritten
        /\ \A h \in Actors : \A h2 \in Produced :
              /\ OpenStep(h, h2) => caches' = CachesOpen(caches, CACHE_NAME)
              /\ (PutStep(h, h2) /\ ClearCacheCompleted) =>
                    /\ CACHE_NAME \in CacheNames(caches')
                    /\ h.req.url \in DOMAIN Entries(caches', CACHE_NAME)
                    /\ Entries(caches', CACHE_NAME)[h.req.url] = PutResponse(h)
      ]_vars

\* C22, amended: no step writes to a generation other than the current one;
\* every open leaves the current generation in the store, created anew if it
\* was deleted; a put through a handle opened since the last deletion of the
\* current generation leaves that generation holding the entry put; a put
\* through a handle opened before that deletion changes no generation of the
\* store, whether or not the current generation was created anew meanwhile.
C22_WritesReachCurrentGenerationOrNone ==
    [][ /\ StaleGenerationsNotWritten
        /\ \A h2 \in BagToSet(handlers') :
              (/\ CACHE_NAME \in CacheNames(caches)
               /\ CACHE_NAME \notin CacheNames(caches')
               /\ (h2.pc \in {"nf_put", "fc_put"} \/ h2.bg = "put")) => h2.detached
        /\ \A h \in Actors : \A h2 \in Produced :
              /\ OpenStep(h, h2) =>
                    /\ caches' = CachesOpen(caches, CACHE_NAME)
                    /\ CACHE_NAME \in CacheNames(caches')
                    /\ ~ h2.detached
              /\ PutStep(h, h2) =>
                    IF h.detached
                    THEN caches' = caches
                    ELSE /\ CACHE_NAME \in CacheNames(caches)
                         /\ Entries(caches', CACHE_NAME) =
                               (h.req.url :> PutResponse(h)) @@ Entries(caches, CACHE_NAME)
                         /\ \A i \in DOMAIN caches' :
                               caches'[i].name # CACHE_NAME => caches'[i] = caches[i]
      ]_vars

\* CLEAR_CACHE has completed beside two handlers in flight.  One had opened
\* the cache before the deletion: its put is lost.  The other opened it
\* afterwards: the current generation is there again and holds its entry.
C22_Witness ==
    /\ ClearCacheCompleted
    /\ \E h1, h2 \in Handlers :
          /\ h1.pc = "done" /\ h1.result.kind = "network" /\ h1.detached
          /\ h1.req.url \notin DOMAIN Entries(caches, CACHE_NAME)
          /\ h2.pc = "done" /\ h2.result.kind = "network" /\ ~ h2.detached
          /\ CacheNames(caches) = {CACHE_NAME}
          /\ DOMAIN Entries(caches, CACHE_NAME) = {h2.req.url}
          /\ Entries(caches, CACHE_NAME)[h2.req.url] = ResponseOf(h2.result)

\* The key a lookup of handler h asks the store for.
LookupKey(h) == IF h.pc = "fb_match" THEN Resolve("/404.html") ELSE h.req.url

\* C23: whenever a lookup of the Request Handler (of cacheFirst, of the catch
\* of networkFirst, of the fallback) ends with a cached response as the
\* handler's result, that response is the entry the current generation holds
\* for the key, whatever other generations hold for it.
C23_CachedResponsesFromCurrentGeneration ==
    [][ \A h \in Actors : \A h2 \in Produced :
            (/\ h.pc \in {"cf_match", "nf_match", "fb_match"}
             /\ h2.pc = "done" /\ h2.result.kind = "cache") =>
                /\ LookupKey(h) \in DOMAIN Entries(caches, CACHE_NAME)
                /\ ResponseOf(h2.result) = Entries(caches, CACHE_NAME)[LookupKey(h)]
      ]_vars

====
